---- MODULE Spec2Model ----
(***************************************************************************)
(* Model of src/main.py: the FastAPI bridge with the two workflows         *)
(* /create_vm and /launch_aap_job.                                         *)
(*                                                                         *)
(* A request is handled in steps that are cut at the outbound calls: the   *)
(* handler runs up to the call it blocks on, the remote side answers (any  *)
(* answer of the reply sets below), and the handler runs on to its next    *)
(* call or to its response.  Requests of different slots interleave        *)
(* freely, which covers every deployment (one event loop that runs the     *)
(* handlers one after the other, or several worker processes).             *)
(*                                                                         *)
(* Text is a sequence of tokens: a literal piece of an f-string is one      *)
(* token, an interpolated name is one token, an interpolated number is its *)
(* decimal digits, one token per digit.                                    *)
(***************************************************************************)
EXTENDS Integers, Sequences, FiniteSets, TLC

VARIABLES AAP_CONTROLLER_URL, AAP_API_TOKEN, kind, body, pc, calls, replies,
          template_id, response

vars == <<AAP_CONTROLLER_URL, AAP_API_TOKEN, kind, body, pc, calls, replies,
          template_id, response>>

\* ---------------------------------------------------------------- bounds
NumReq == 2      \* request slots in flight together (SpecConc)
MaxCount == 2    \* largest "count" (and page length) of a lookup reply
MaxId == 2       \* number of distinct job template identifiers
MaxJob == 1      \* number of distinct job identifiers

\* ------------------------------------------------------- python values
\* An optional value: None is the empty tuple, a value v is <<v>>.
None == <<>>
Some(v) == <<v>>

\* Mutant: the configuration check is missing.
TruthyUnchecked(v) == TRUE

\* Python truthiness of an optional string: None and "" are falsy.
Truthy(v) == v # None /\ v # Some("")

Digits == <<"0", "1", "2", "3", "4", "5", "6", "7", "8", "9">>

\* str(n) of a natural number, as its decimal digits.
RECURSIVE IntStr(_)
IntStr(n) == IF n < 10 THEN <<Digits[n + 1]>>
             ELSE IntStr(n \div 10) \o <<Digits[(n % 10) + 1]>>

\* f"{x}" of an optional integer: None formats as the text "None".
PyFormat(x) == IF x = None THEN <<"None">> ELSE IntStr(x[1])

\* f"{x}" of an optional string (a configuration value).
PyFormatStr(x) == IF x = None THEN <<"None">> ELSE <<x[1]>>

\* sub occurs in text as a run of consecutive tokens.
Contains(text, sub) ==
    \E i \in 1..(Len(text) - Len(sub) + 1) :
        SubSeq(text, i, i + Len(sub) - 1) = sub

EndsWith(text, sub) ==
    /\ Len(sub) <= Len(text)
    /\ SubSeq(text, Len(text) - Len(sub) + 1, Len(text)) = sub

\* ------------------------------------------------------------ the inputs
ConfigValues == {None, Some(""), Some("https://aap.example.com")}

JobTemplateNames == {"Deploy-App", "Patch-OS"}
ExtraVars == {"{}", "{env: prod}"}
VmNames == {"test-vm", "db-vm"}
Namespaces == {"default", "demo"}

\* class AAPJob
AAPJob == [job_template_name : JobTemplateNames, extra_vars : ExtraVars]
\* class VirtualMachine
VirtualMachine == [vm_name : VmNames, namespace : Namespaces]

TemplateIds == {8 + i : i \in 1..MaxId}
JobIds == {99 + i : i \in 1..MaxJob}

\* Sequences over S of length 0..n.
SeqUpTo(S, n) == UNION {[1..k -> S] : k \in 0..n}

\* What requests.get / requests.post can produce: an exception of the
\* transport, or the final response with its status code (a redirect that
\* names no Location is not followed and is final).
TransportErrors == {"ConnectionError", "Timeout"}
OkStatuses == {200, 300}
ErrorStatuses == {404, 500}

\* Replies to GET /api/v2/job_templates/?name=...  A response body is a
\* JSON object {count, results:[{id}]}; count = None is a body without a
\* "count" key.  The body of an error status is never read.  Bodies that
\* are no JSON object are left out: what response.json() raises for them,
\* and so whether line 60 catches it, depends on the version of requests.
LookupReplies ==
    [type : {"exception"}, exc : TransportErrors, status : {0},
     count : {None}, results : {<<>>}]
    \cup [type : {"response"}, exc : {""}, status : ErrorStatuses,
          count : {None}, results : {<<>>}]
    \cup [type : {"response"}, exc : {""}, status : OkStatuses,
          count : {None} \cup {Some(c) : c \in 0..MaxCount},
          results : SeqUpTo(TemplateIds, MaxCount)]

\* Replies to POST /api/v2/job_templates/{id}/launch/.  A response body is
\* a JSON object that may hold "job".
LaunchReplies ==
    [type : {"exception"}, exc : TransportErrors, status : {0}, job : {None}]
    \cup [type : {"response"}, exc : {""}, status : ErrorStatuses, job : {None}]
    \cup [type : {"response"}, exc : {""}, status : OkStatuses \cup {201},
          job : {None} \cup {Some(j) : j \in JobIds}]

\* Outcomes of create_namespaced_custom_object: it returns, it raises
\* ApiException(status, reason), or it raises another exception of the
\* client (urllib3).
CreateReplies ==
    [type : {"created"}, status : {201}, reason : {"Created"}]
    \cup {[type |-> "ApiException", status |-> 409, reason |-> "AlreadyExists"],
          [type |-> "ApiException", status |-> 403, reason |-> "Forbidden"],
          [type |-> "ApiException", status |-> 422, reason |-> "Unprocessable Entity"]}
    \cup [type : {"other"}, status : {0}, reason : {"MaxRetryError"}]

\* ------------------------------------------------- what the handlers build
\* HTTPException(status_code, detail), as FastAPI answers it.
HTTPException(status_code, detail) ==
    [status_code |-> status_code, detail |-> detail, status |-> "error",
     message |-> <<>>, job_id |-> None, aap_url |-> <<>>]

\* An exception no handler catches: the server answers 500 with a fixed text.
Unhandled ==
    [status_code |-> 500, detail |-> <<"Internal Server Error">>,
     status |-> "error", message |-> <<>>, job_id |-> None, aap_url |-> <<>>]

\* The value of response[r] while the request has no response yet.
NoResponse ==
    [status_code |-> 0, detail |-> <<>>, status |-> "", message |-> <<>>,
     job_id |-> None, aap_url |-> <<>>]

\* Mutant: only the server errors raise.
raise_for_status_5xx(status) == status >= 500 /\ status < 600

\* Response.raise_for_status(): raises HTTPError for 4xx and 5xx only.
raise_for_status(status) == status >= 400 /\ status < 600

\* str(e) of the RequestException a call ended with.
ExcText(reply, url) ==
    IF reply.type = "exception" THEN <<reply.exc>>
    ELSE IntStr(reply.status)
         \o <<IF reply.status < 500 THEN " Client Error for url: "
              ELSE " Server Error for url: ">>
         \o url

headers(token) ==
    [ContentType |-> "application/json",
     Authorization |-> <<"Bearer ">> \o PyFormatStr(token)]

\* url of the template lookup (line 46)
lookup_url(base) == PyFormatStr(base) \o <<"/api/v2/job_templates/">>

\* Mutant: the path is built from a plain string, the id never interpolated.
launch_url_plain(base, id) ==
    PyFormatStr(base) \o <<"/api/v2/job_templates/", "{template_id}",
                           "/launch/">>

\* launch_url (line 138)
launch_url(base, id) ==
    PyFormatStr(base) \o <<"/api/v2/job_templates/">> \o IntStr(id)
    \o <<"/launch/">>

\* Mutant: a missing job id is left out of the url.
aap_url_skip_missing(base, job) ==
    PyFormatStr(base) \o <<"/#/jobs/playbook/">>
    \o (IF job = None THEN <<>> ELSE IntStr(job[1]))

\* aap_url of the success response (line 149)
aap_url(base, job) ==
    PyFormatStr(base) \o <<"/#/jobs/playbook/">> \o PyFormat(job)

GetCall(base, template_name, token) ==
    [method |-> "GET", url |-> lookup_url(base),
     params |-> Some(template_name), json |-> None, headers |-> headers(token)]

PostCall(base, id, extra_vars, token) ==
    [method |-> "POST", url |-> launch_url(base, id), params |-> None,
     json |-> Some(extra_vars), headers |-> headers(token)]

\* vm_manifest (lines 78-104)
vm_manifest(vm) ==
    [apiVersion |-> "kubevirt.io/v1", kind |-> "VirtualMachine",
     metadata |-> [name |-> vm.vm_name], running |-> FALSE,
     disks |-> <<[name |-> "containerdisk", bus |-> "virtio"]>>,
     memory |-> "2Gi",
     volumes |-> <<[name |-> "containerdisk",
                    image |-> "quay.io/containerdisks/rhel:9"]>>]

CreateCall(vm) ==
    [method |-> "create_namespaced_custom_object", group |-> "kubevirt.io",
     version |-> "v1", namespace |-> vm.namespace,
     plural |-> "virtualmachines", body |-> vm_manifest(vm)]

\* The result of a call of a helper: it returns a value or it ends with the
\* response of the exception it raised.
Return(v) == [type |-> "return", value |-> v, error |-> NoResponse]
Raise(resp) == [type |-> "raise", value |-> 0, error |-> resp]

\* Mutant: the 409 does not say which name was ambiguous.
conflict_detail_anonymous(template_name) ==
    <<"Conflict: Multiple job templates found.">>

\* Mutant: the 404 does not say which name was looked up.
not_found_detail_anonymous(template_name) ==
    <<"Not Found: No job template found.">>

\* detail of the 409 (line 57)
conflict_detail(template_name) ==
    <<"Conflict: Multiple job templates found with name '", template_name,
      "'.">>

\* detail of the 404 (line 59)
not_found_detail(template_name) ==
    <<"Not Found: No job template found with name '", template_name, "'.">>

\* Mutant: any non-empty page is taken as a match (count >= 1 for == 1).
match_result_first(template_name, count, results) ==
    IF count = None
    THEN Raise(Unhandled)
    ELSE IF count[1] >= 1
    THEN IF results = <<>>
         THEN Raise(Unhandled)
         ELSE Return(results[1])
    ELSE Raise(HTTPException(404, not_found_detail(template_name)))

\* The branch on data['count'] (lines 54-59); count and results are read
\* from the body, and a missing key or an empty list raises an exception
\* that nothing catches.
match_result(template_name, count, results) ==
    IF count = None
    THEN Raise(Unhandled)                           \* KeyError: 'count'
    ELSE IF count[1] = 1
    THEN IF results = <<>>
         THEN Raise(Unhandled)                      \* IndexError
         ELSE Return(results[1])
    ELSE IF count[1] > 1
    THEN Raise(HTTPException(409, conflict_detail(template_name)))
    ELSE Raise(HTTPException(404, not_found_detail(template_name)))

\* get_job_template_id from the reply of its GET on (lines 50-61).
get_job_template_id(template_name, reply, url) ==
    IF reply.type = "exception" \/ raise_for_status(reply.status)
    THEN Raise(HTTPException(503,
             <<"Service Unavailable: Could not connect to AAP. Error: ">>
             \o ExcText(reply, url)))
    ELSE match_result(template_name, reply.count, reply.results)

\* launch_aap_job from the reply of its POST on (lines 142-152).
launch_result(job, reply, base, url) ==
    IF reply.type = "exception" \/ raise_for_status(reply.status)
    THEN HTTPException(503,
             <<"Service Unavailable: Failed to launch job in AAP. Error: ">>
             \o ExcText(reply, url))
    ELSE [status_code |-> 200, detail |-> <<>>, status |-> "success",
          message |-> <<"Successfully launched job template '",
                        job.job_template_name, "'.">>,
          job_id |-> reply.job, aap_url |-> aap_url(base, reply.job)]

\* Mutant: every failure of the create call is answered as a plain 500.
create_result_500(vm, reply) ==
    IF reply.type = "created"
    THEN [status_code |-> 200, detail |-> <<>>, status |-> "success",
          message |-> <<"VirtualMachine '", vm.vm_name,
                        "' created successfully in namespace '",
                        vm.namespace, "'.">>,
          job_id |-> None, aap_url |-> <<>>]
    ELSE HTTPException(500,
             <<"Kubernetes API Error: Failed to create VM.">>)

\* create_vm from the outcome of its create call on (lines 114-122).
create_result(vm, reply) ==
    IF reply.type = "created"
    THEN [status_code |-> 200, detail |-> <<>>, status |-> "success",
          message |-> <<"VirtualMachine '", vm.vm_name,
                        "' created successfully in namespace '",
                        vm.namespace, "'.">>,
          job_id |-> None, aap_url |-> <<>>]
    ELSE IF reply.type = "ApiException"
    THEN HTTPException(reply.status,
             <<"Kubernetes API Error: Failed to create VM. Reason: ",
               reply.reason>>)
    ELSE Unhandled

\* ------------------------------------------------------------ the state
Finish(r, resp) ==
    /\ response' = [response EXCEPT ![r] = resp]
    /\ pc' = [pc EXCEPT ![r] = "done"]

Issue(r, call) == calls' = [calls EXCEPT ![r] = Append(@, call)]

Receive(r, reply) == replies' = [replies EXCEPT ![r] = Append(@, reply)]

\* Mutant: template_id is a module-level global that every handler shares.
SetTemplateIdGlobal(r, id) == template_id' = [s \in DOMAIN pc |-> Some(id)]

\* template_id = get_job_template_id(...): a local of the handler (line 137)
SetTemplateId(r, id) == template_id' = [template_id EXCEPT ![r] = Some(id)]

\* POST /launch_aap_job up to its first outbound call (lines 129-137, 43-50).
LaunchStart(r) ==
    /\ kind[r] = "job" /\ pc[r] = "start"
    /\ IF ~Truthy(AAP_API_TOKEN)
       THEN /\ Finish(r, HTTPException(500,
                            <<"AAP_API_TOKEN is not configured.">>))
            /\ UNCHANGED calls
       ELSE IF ~Truthy(AAP_CONTROLLER_URL)
       THEN /\ Finish(r, HTTPException(500,
                            <<"AAP_CONTROLLER_URL is not configured.">>))
            /\ UNCHANGED calls
       ELSE /\ Issue(r, GetCall(AAP_CONTROLLER_URL,
                                body[r].job_template_name, AAP_API_TOKEN))
            /\ pc' = [pc EXCEPT ![r] = "lookup"]
            /\ UNCHANGED response
    /\ UNCHANGED <<AAP_CONTROLLER_URL, AAP_API_TOKEN, kind, body, replies,
                   template_id>>

\* Mutant: a lookup that ended with an exception of the transport is sent
\* again.
LookupReturnRetry(r, reply) ==
    /\ kind[r] = "job" /\ pc[r] = "lookup"
    /\ Receive(r, reply)
    /\ LET out == get_job_template_id(body[r].job_template_name, reply,
                                      lookup_url(AAP_CONTROLLER_URL))
       IN IF reply.type = "exception"
          THEN /\ Issue(r, GetCall(AAP_CONTROLLER_URL,
                                   body[r].job_template_name, AAP_API_TOKEN))
               /\ UNCHANGED <<pc, response, template_id>>
          ELSE IF out.type = "return"
          THEN /\ SetTemplateId(r, out.value)
               /\ Issue(r, PostCall(AAP_CONTROLLER_URL, out.value,
                                    body[r].extra_vars, AAP_API_TOKEN))
               /\ pc' = [pc EXCEPT ![r] = "launch"]
               /\ UNCHANGED response
          ELSE /\ Finish(r, out.error)
               /\ UNCHANGED <<template_id, calls>>
    /\ UNCHANGED <<AAP_CONTROLLER_URL, AAP_API_TOKEN, kind, body>>

\* The lookup's reply arrives: the rest of get_job_template_id, then
\* launch_aap_job up to its POST (lines 50-61, 137-141).
LookupReturn(r, reply) ==
    /\ kind[r] = "job" /\ pc[r] = "lookup"
    /\ Receive(r, reply)
    /\ LET out == get_job_template_id(body[r].job_template_name, reply,
                                      lookup_url(AAP_CONTROLLER_URL))
       IN IF out.type = "return"
          THEN /\ SetTemplateId(r, out.value)
               /\ Issue(r, PostCall(AAP_CONTROLLER_URL, out.value,
                                    body[r].extra_vars, AAP_API_TOKEN))
               /\ pc' = [pc EXCEPT ![r] = "launch"]
               /\ UNCHANGED response
          ELSE /\ Finish(r, out.error)
               /\ UNCHANGED <<template_id, calls>>
    /\ UNCHANGED <<AAP_CONTROLLER_URL, AAP_API_TOKEN, kind, body>>

\* The launch's reply arrives: the rest of launch_aap_job (lines 142-152).
LaunchReturn(r, reply) ==
    /\ kind[r] = "job" /\ pc[r] = "launch"
    /\ Receive(r, reply)
    /\ Finish(r, launch_result(body[r], reply, AAP_CONTROLLER_URL,
                               launch_url(AAP_CONTROLLER_URL,
                                          template_id[r][1])))
    /\ UNCHANGED <<AAP_CONTROLLER_URL, AAP_API_TOKEN, kind, body, calls,
                   template_id>>

\* POST /create_vm up to its outbound call (lines 75-113).
CreateStart(r) ==
    /\ kind[r] = "vm" /\ pc[r] = "start"
    /\ Issue(r, CreateCall(body[r]))
    /\ pc' = [pc EXCEPT ![r] = "create"]
    /\ UNCHANGED <<AAP_CONTROLLER_URL, AAP_API_TOKEN, kind, body, replies,
                   template_id, response>>

\* The create call ends: the rest of create_vm (lines 114-122).
CreateReturn(r, reply) ==
    /\ kind[r] = "vm" /\ pc[r] = "create"
    /\ Receive(r, reply)
    /\ Finish(r, create_result(body[r], reply))
    /\ UNCHANGED <<AAP_CONTROLLER_URL, AAP_API_TOKEN, kind, body, calls,
                   template_id>>

\* The state after module import, with the requests of the slots received.
InitSlots(slots, jobs, vms) ==
    /\ AAP_CONTROLLER_URL \in ConfigValues
    /\ AAP_API_TOKEN \in {None, Some(""), Some("s3cr3t")}
    /\ kind \in [slots -> {"job", "vm"}]
    /\ body \in [slots -> jobs \cup vms]
    /\ \A r \in slots : (kind[r] = "job") <=> (body[r] \in jobs)
    /\ pc = [r \in slots |-> "start"]
    /\ calls = [r \in slots |-> <<>>]
    /\ replies = [r \in slots |-> <<>>]
    /\ template_id = [r \in slots |-> None]
    /\ response = [r \in slots |-> NoResponse]

Slots == DOMAIN pc

\* One request, every reply the remote side can give.
Init == InitSlots({1}, AAPJob, VirtualMachine)

Next ==
    \/ \E r \in Slots : LaunchStart(r)
    \/ \E r \in Slots : \E reply \in LookupReplies : LookupReturn(r, reply)
    \/ \E r \in Slots : \E reply \in LaunchReplies : LaunchReturn(r, reply)
    \/ \E r \in Slots : CreateStart(r)
    \/ \E r \in Slots : \E reply \in CreateReplies : CreateReturn(r, reply)

Spec == Init /\ [][Next]_vars

\* NumReq requests in flight, their steps interleaved in any order, over a
\* cut of the inputs: one reply of each class the handlers tell apart, and
\* two templates so that two requests can resolve differently.
ConcJobs == {j \in AAPJob : j.extra_vars = "{}"}
ConcVms == {v \in VirtualMachine : v.namespace = "default" /\ v.vm_name = "test-vm"}

LookupResponse(status, count, results) ==
    [type |-> "response", exc |-> "", status |-> status, count |-> count,
     results |-> results]

ConcLookupReplies ==
    {[type |-> "exception", exc |-> "ConnectionError", status |-> 0,
      count |-> None, results |-> <<>>],
     LookupResponse(200, Some(0), <<>>),
     LookupResponse(200, Some(1), <<9>>),
     LookupResponse(200, Some(1), <<10>>),
     LookupResponse(200, Some(2), <<9, 10>>)}

ConcLaunchReplies ==
    {[type |-> "exception", exc |-> "ConnectionError", status |-> 0,
      job |-> None],
     [type |-> "response", exc |-> "", status |-> 201, job |-> None],
     [type |-> "response", exc |-> "", status |-> 201, job |-> Some(100)]}

ConcCreateReplies ==
    {p \in CreateReplies : p.type = "created" \/ p.status = 409}

InitConc == InitSlots(1..NumReq, ConcJobs, ConcVms)

NextConc ==
    \/ \E r \in Slots : LaunchStart(r)
    \/ \E r \in Slots : \E reply \in ConcLookupReplies : LookupReturn(r, reply)
    \/ \E r \in Slots : \E reply \in ConcLaunchReplies : LaunchReturn(r, reply)
    \/ \E r \in Slots : CreateStart(r)
    \/ \E r \in Slots : \E reply \in ConcCreateReplies : CreateReturn(r, reply)

SpecConc == InitConc /\ [][NextConc]_vars

\* ------------------------------------------------------------ the claims
IsJob(r) == kind[r] = "job"
CallsOf(r, m) == {i \in DOMAIN calls[r] : calls[r][i].method = m}
LookupReply(r) == replies[r][1]
LaunchReply(r) == replies[r][2]
\* The call ended with an exception: the transport raised, or the status
\* is one raise_for_status raises for.
Failed(reply) ==
    reply.type = "exception" \/ (reply.status >= 400 /\ reply.status <= 599)
\* The lookup's body reports n matches.
Reports(reply, n) == ~Failed(reply) /\ reply.count = Some(n)
\* The lookup's body reports two or more matches.
ReportsMany(reply) ==
    ~Failed(reply) /\ reply.count # None /\ reply.count[1] >= 2
Unset(v) == v = None \/ v = Some("")

\* C1: in every handling of /launch_aap_job the launch POST is issued only
\* after the lookup GET of the same request was answered without failure
\* and with exactly one match; when the lookup reports zero matches (404),
\* two or more (409) or fails (503), the request has ended with that error
\* and has issued no POST.
C1_LaunchOnlyAfterUniqueMatch ==
    \A r \in Slots : IsJob(r) =>
        /\ CallsOf(r, "POST") # {} =>
              /\ CallsOf(r, "GET") = {1} /\ CallsOf(r, "POST") = {2}
              /\ Len(replies[r]) >= 1 /\ Reports(LookupReply(r), 1)
        /\ (Len(replies[r]) >= 1 /\ ~Reports(LookupReply(r), 1)) =>
              /\ pc[r] = "done" /\ CallsOf(r, "POST") = {}
              /\ response[r].status # "success"
              /\ Failed(LookupReply(r)) => response[r].status_code = 503
              /\ Reports(LookupReply(r), 0) => response[r].status_code = 404
              /\ ReportsMany(LookupReply(r)) => response[r].status_code = 409

\* C1 witness: a request whose lookup reported two matches has ended with
\* 409 after its GET alone.
C1_Witness ==
    \E r \in Slots :
        /\ IsJob(r) /\ pc[r] = "done" /\ Len(replies[r]) = 1
        /\ Reports(LookupReply(r), 2)
        /\ response[r].status_code = 409 /\ Len(calls[r]) = 1

\* C2: when the lookup reports exactly one match, the resolver yields the
\* identifier of that match, and the launch POST goes to
\* {base}/api/v2/job_templates/{id}/launch/ with that identifier, not the
\* template's name, in its path.
C2_LaunchPathUsesResolvedId ==
    \A r \in Slots :
        (/\ IsJob(r) /\ Len(replies[r]) >= 1 /\ Reports(LookupReply(r), 1)
         /\ LookupReply(r).results # <<>>) =>
            /\ template_id[r] = Some(LookupReply(r).results[1])
            /\ CallsOf(r, "POST") = {2}
            /\ calls[r][2].url =
                  <<AAP_CONTROLLER_URL[1], "/api/v2/job_templates/">>
                  \o IntStr(LookupReply(r).results[1]) \o <<"/launch/">>
            /\ ~Contains(calls[r][2].url, <<body[r].job_template_name>>)

\* C2 witness: a launch was posted for a two-digit identifier.
C2_Witness ==
    \E r \in Slots :
        /\ IsJob(r) /\ pc[r] = "launch"
        /\ Reports(LookupReply(r), 1)
        /\ template_id[r] = Some(10)
        /\ Contains(calls[r][2].url, <<"1", "0", "/launch/">>)

\* C3: if the bearer token or the controller base URL is unset (None or
\* empty), /launch_aap_job ends with HTTP 500 and issues no outbound call
\* at all: neither the lookup GET nor the launch POST.
C3_MisconfiguredMakesNoCall ==
    \A r \in Slots :
        (IsJob(r) /\ (Unset(AAP_API_TOKEN) \/ Unset(AAP_CONTROLLER_URL))) =>
            /\ calls[r] = <<>> /\ replies[r] = <<>>
            /\ pc[r] \in {"start", "done"}
            /\ pc[r] = "done" =>
                  /\ response[r].status_code = 500
                  /\ response[r].status = "error"
                  /\ response[r].detail \in
                        {<<"AAP_API_TOKEN is not configured.">>,
                         <<"AAP_CONTROLLER_URL is not configured.">>}

\* C3 witness: a request has ended with 500 for the token that is not set.
C3_Witness ==
    \E r \in Slots :
        /\ IsJob(r) /\ pc[r] = "done" /\ AAP_API_TOKEN = None
        /\ response[r].status_code = 500 /\ calls[r] = <<>>

\* C4 (as amended): when the lookup reports more than one match, the
\* request ends with HTTP 409 and the error's detail carries the requested
\* template name; no launch is posted.
C4_AmbiguousIs409WithName ==
    \A r \in Slots :
        (IsJob(r) /\ Len(replies[r]) >= 1 /\ ReportsMany(LookupReply(r))) =>
            /\ pc[r] = "done" /\ response[r].status_code = 409
            /\ Contains(response[r].detail, <<body[r].job_template_name>>)
            /\ CallsOf(r, "POST") = {}

\* C4 witness: a request for "Patch-OS" has ended with the 409.
C4_Witness ==
    \E r \in Slots :
        /\ IsJob(r) /\ pc[r] = "done" /\ Len(replies[r]) = 1
        /\ Reports(LookupReply(r), 2)
        /\ body[r].job_template_name = "Patch-OS"
        /\ response[r].detail =
              <<"Conflict: Multiple job templates found with name '",
                "Patch-OS", "'.">>

\* C4 (as claimed): when the lookup reports more than one match, the 409
\* carries both the requested template name and the match count.
C4_AmbiguousCarriesCount ==
    \A r \in Slots :
        (IsJob(r) /\ Len(replies[r]) >= 1 /\ ReportsMany(LookupReply(r))) =>
            /\ response[r].status_code = 409
            /\ Contains(response[r].detail, <<body[r].job_template_name>>)
            /\ Contains(response[r].detail, IntStr(LookupReply(r).count[1]))

\* C5: when the lookup reports zero matches, the resolver fails with 404
\* and a detail that carries the requested template name, and the caller
\* of /launch_aap_job gets that very error: status 404, the same detail.
C5_NotFoundIs404WithName ==
    \A r \in Slots :
        (IsJob(r) /\ Len(replies[r]) >= 1 /\ Reports(LookupReply(r), 0)) =>
            /\ pc[r] = "done" /\ response[r].status_code = 404
            /\ response[r].status = "error"
            /\ response[r].detail =
                  <<"Not Found: No job template found with name '",
                    body[r].job_template_name, "'.">>
            /\ Contains(response[r].detail, <<body[r].job_template_name>>)
            /\ CallsOf(r, "POST") = {}

\* C5 witness: a request for "Deploy-App" has ended with the 404.
C5_Witness ==
    \E r \in Slots :
        /\ IsJob(r) /\ pc[r] = "done" /\ Len(replies[r]) = 1
        /\ Reports(LookupReply(r), 0)
        /\ body[r].job_template_name = "Deploy-App"
        /\ response[r].status_code = 404

\* C6 (as amended): if the lookup or the launch call ends with a transport
\* failure, a timeout or a 4xx/5xx response, /launch_aap_job ends there
\* with HTTP 503, its detail carrying the text of the underlying error
\* (the exception, or the status of the response), and does not report
\* success.
C6_FailedCallIs503 ==
    \A r \in Slots : IsJob(r) =>
        \A i \in DOMAIN replies[r] :
            Failed(replies[r][i]) =>
                /\ pc[r] = "done" /\ Len(replies[r]) = i
                /\ response[r].status_code = 503
                /\ response[r].status = "error"
                /\ response[r].job_id = None
                /\ IF replies[r][i].type = "exception"
                   THEN Contains(response[r].detail, <<replies[r][i].exc>>)
                   ELSE Contains(response[r].detail,
                                 IntStr(replies[r][i].status))

\* C6 witness: a request whose launch POST was answered 500 has ended
\* with the 503 that names it.
C6_Witness ==
    \E r \in Slots :
        /\ IsJob(r) /\ pc[r] = "done" /\ Len(replies[r]) = 2
        /\ LaunchReply(r).status = 500
        /\ response[r].status_code = 503
        /\ Contains(response[r].detail,
                    <<"5", "0", "0", " Server Error for url: ">>)

\* C6 (as claimed): if either call ends with a transport failure, a
\* timeout or a response whose status is not 2xx, /launch_aap_job ends with
\* HTTP 503 and does not report success.  Stated for the replies whose
\* body the handler can read (a "count", and a first result when it is 1).
C6_Non2xxIs503 ==
    \A r \in Slots : IsJob(r) =>
        \A i \in DOMAIN replies[r] :
            (/\ \/ replies[r][i].type = "exception"
                \/ replies[r][i].status < 200 \/ replies[r][i].status > 299
             /\ (i = 1 /\ replies[r][i].type = "response") =>
                   /\ replies[r][i].count # None
                   /\ replies[r][i].count = Some(1)
                         => replies[r][i].results # <<>>) =>
                /\ pc[r] = "done" /\ Len(replies[r]) = i
                /\ response[r].status_code = 503
                /\ response[r].status # "success"

\* C7: when the create call of /create_vm is rejected by the orchestration
\* API, the endpoint fails with the remote status code and a detail that
\* contains the remote reason; when the create call succeeds, it answers a
\* success whose message names the VM and the namespace.
C7_CreateOutcomeSurfaced ==
    \A r \in Slots :
        (kind[r] = "vm" /\ Len(replies[r]) >= 1) =>
            /\ pc[r] = "done"
            /\ replies[r][1].type = "ApiException" =>
                  /\ response[r].status_code = replies[r][1].status
                  /\ response[r].status = "error"
                  /\ Contains(response[r].detail, <<replies[r][1].reason>>)
            /\ replies[r][1].type = "created" =>
                  /\ response[r].status = "success"
                  /\ response[r].status_code = 200
                  /\ Contains(response[r].message, <<body[r].vm_name>>)
                  /\ Contains(response[r].message, <<body[r].namespace>>)

\* C7 witness: a create call rejected with 409 AlreadyExists has been
\* answered as 409 with "AlreadyExists" in the detail.
C7_Witness ==
    \E r \in Slots :
        /\ kind[r] = "vm" /\ pc[r] = "done"
        /\ replies[r][1].status = 409
        /\ response[r].status_code = 409
        /\ Contains(response[r].detail, <<"AlreadyExists">>)

\* C8: when the launch call succeeds and its body holds no "job", the
\* endpoint answers success with job_id null and the status url
\* {base_url}/#/jobs/playbook/None; when the body holds "job", job_id is
\* that job and the status url ends with its decimal digits.
C8_JobIdAndStatusUrl ==
    \A r \in Slots :
        (IsJob(r) /\ Len(replies[r]) = 2 /\ ~Failed(LaunchReply(r))) =>
            /\ pc[r] = "done" /\ response[r].status = "success"
            /\ response[r].status_code = 200
            /\ response[r].job_id = LaunchReply(r).job
            /\ LaunchReply(r).job = None =>
                  response[r].aap_url =
                      <<AAP_CONTROLLER_URL[1], "/#/jobs/playbook/", "None">>
            /\ LaunchReply(r).job # None =>
                  /\ response[r].aap_url =
                        <<AAP_CONTROLLER_URL[1], "/#/jobs/playbook/">>
                        \o IntStr(LaunchReply(r).job[1])
                  /\ EndsWith(response[r].aap_url,
                              IntStr(LaunchReply(r).job[1]))

\* C8 witness: a launch answered 201 without "job" has been reported as a
\* success with job_id null.
C8_Witness ==
    \E r \in Slots :
        /\ IsJob(r) /\ pc[r] = "done" /\ Len(replies[r]) = 2
        /\ LaunchReply(r).status = 201 /\ LaunchReply(r).job = None
        /\ response[r].status = "success" /\ response[r].job_id = None
        /\ EndsWith(response[r].aap_url, <<"/#/jobs/playbook/", "None">>)

\* C9: nothing is retried: over its whole handling a /launch_aap_job
\* request issues at most one lookup GET and at most one launch POST (and
\* no create call), and a /create_vm request issues exactly one create
\* call (and no GET or POST), whatever each call's outcome; each call gets
\* at most one reply.
C9_SingleAttempt ==
    \A r \in Slots :
        /\ Len(replies[r]) <= Len(calls[r])
        /\ IsJob(r) =>
              /\ Cardinality(CallsOf(r, "GET")) <= 1
              /\ Cardinality(CallsOf(r, "POST")) <= 1
              /\ Len(calls[r]) <= 2
              /\ CallsOf(r, "create_namespaced_custom_object") = {}
        /\ kind[r] = "vm" =>
              /\ Len(calls[r]) <= 1
              /\ CallsOf(r, "GET") = {} /\ CallsOf(r, "POST") = {}
              /\ pc[r] # "start" =>
                    CallsOf(r, "create_namespaced_custom_object") = {1}

\* C9 witness: a request has ended after a lookup that failed, with its
\* one GET and nothing else.
C9_Witness ==
    \E r \in Slots :
        /\ IsJob(r) /\ pc[r] = "done" /\ Len(replies[r]) = 1
        /\ LookupReply(r).type = "exception"
        /\ Len(calls[r]) = 1 /\ calls[r][1].method = "GET"

\* What a request holds of its own.
Own(r) == <<kind[r], body[r], pc[r], calls[r], replies[r], template_id[r],
            response[r]>>

\* Two requests with the same body that got the same replies are in the
\* same state and have the same response.
Independent ==
    \A r1, r2 \in Slots :
        (kind[r1] = kind[r2] /\ body[r1] = body[r2]
         /\ Len(replies[r1]) = Len(replies[r2])
         /\ replies[r1] = replies[r2]
         /\ (pc[r1] = "start") = (pc[r2] = "start")) =>
            Own(r1) = Own(r2)

\* C10: with several requests in flight and their steps interleaved in any
\* order, the base URL and the bearer token never change, a step of one
\* request changes nothing another request holds, and a request's response
\* is a function of its own body and of the replies to its own calls.
C10_RequestsIndependent ==
    [][/\ AAP_CONTROLLER_URL' = AAP_CONTROLLER_URL
       /\ AAP_API_TOKEN' = AAP_API_TOKEN
       /\ \A r1, r2 \in Slots :
             r1 # r2 => (Own(r1)' = Own(r1) \/ Own(r2)' = Own(r2))
       /\ \A r \in Slots : kind[r]' = kind[r] /\ body[r]' = body[r]
       /\ Independent']_vars

\* C10 witness: one request has gone through both its calls while another
\* with the same body waits for its launch, resolved to another template.
C10_Witness ==
    \E r1, r2 \in Slots :
        /\ r1 # r2 /\ IsJob(r1) /\ IsJob(r2) /\ body[r1] = body[r2]
        /\ pc[r1] = "launch" /\ pc[r2] = "done" /\ Len(replies[r2]) = 2
        /\ template_id[r1] # template_id[r2]
        /\ response[r2].status = "success"

====
